---- MODULE Spec2Model ----
(***************************************************************************)
(* Model of src/src/preference_list.rs: the Actor and its preference list. *)
(* The state is the four maps of the Actor; every public method is one     *)
(* action.  A BinaryHeap is modelled by its backing vector (a sequence,    *)
(* root first) with std's push/sift_up; a GoalWrapper's comparator closure *)
(* is modelled by the goal_hierarchy clone it captured.                    *)
(***************************************************************************)
EXTENDS Integers, Sequences, FiniteSets, TLC

\* ---------------------------------------------------------------- bounds
MaxUnits == 2
MaxRank == 1
MaxSteps == 2
MaxHier == 2
MaxPairs == 2

\* Goal and Item are opaque tokens of crate::items::discretes.
Goals == {"A", "B", "C"}
Items == {"x", "y"}
Ids == {1}
Times == {0}

\* Goal derives Ord: the intrinsic order of the tokens.
GoalOrd(g) == IF g = "A" THEN 0 ELSE IF g = "B" THEN 1 ELSE 2

\* ---------------------------------------------------------------- values
\* Option<T>
None == <<>>
Some(v) == <<v>>

\* Ordering
Less == "Less"
Equal == "Equal"
Greater == "Greater"

IntCmp(a, b) == IF a < b THEN Less ELSE IF a = b THEN Equal ELSE Greater

\* HashMap: a function whose DOMAIN is the key set.
EmptyMap == [k \in {} |-> 0]
MapInsert(m, k, v) == [x \in DOMAIN m \cup {k} |-> IF x = k THEN v ELSE m[x]]
MapRemove(m, k) == [x \in DOMAIN m \ {k} |-> m[x]]
MapGet(m, k) == IF k \in DOMAIN m THEN Some(m[k]) ELSE None

\* GoalData
Satisfaction(g, ur, u, i) ==
    [kind |-> "Satisfaction", goal |-> g, units_required |-> ur, units |-> u, id |-> i]
RegularSatisfaction(g, tr, t, ur, u, i) ==
    [kind |-> "RegularSatisfaction", goal |-> g, time_required |-> tr, time |-> t,
     units_required |-> ur, units |-> u, id |-> i]

get_goal(gd) == gd.goal
is_recurring(gd) == gd.kind # "Satisfaction"

\* The records callers pass in.
GoalDatas ==
    {Satisfaction(g, ur, u, i) :
        g \in Goals, ur \in 1..MaxUnits, u \in 0..(MaxUnits - 1), i \in Ids}
    \cup
    {RegularSatisfaction(g, tr, t, ur, u, i) :
        g \in Goals, tr \in Times, t \in Times,
        ur \in 1..MaxUnits, u \in 0..(MaxUnits - 1), i \in Ids}

\* ---------------------------------------------------------------- ordering
\* The comparator closure of add_goal / remove_goal over its captured gh.
Comparator(gh, x, y) ==
    IF get_goal(x) \in DOMAIN gh /\ get_goal(y) \in DOMAIN gh
    THEN IntCmp(gh[get_goal(x)], gh[get_goal(y)])
    ELSE Equal

GoalWrapper(gh, gd) == [comparator |-> gh, goal |-> gd]

\* impl Ord for GoalWrapper: self's comparator decides.
WrapperCmp(self, other) == Comparator(self.comparator, self.goal, other.goal)

\* PartialOrd::le through partial_cmp
WrapperLe(self, other) == WrapperCmp(self, other) \in {Less, Equal}

\* ---------------------------------------------------------------- BinaryHeap
Swap(data, i, j) == [data EXCEPT ![i] = data[j], ![j] = data[i]]

\* BinaryHeap::sift_up(0, pos), positions 0-based as in std.
RECURSIVE SiftUp(_, _)
SiftUp(data, pos) ==
    IF pos = 0 THEN data
    ELSE LET parent == (pos - 1) \div 2 IN
         IF WrapperLe(data[pos + 1], data[parent + 1]) THEN data
         ELSE SiftUp(Swap(data, pos + 1, parent + 1), parent)

HeapPush(data, w) == SiftUp(Append(data, w), Len(data))

\* heap.append(&mut one-element heap): the shorter heap's elements are pushed.
HeapAppendOne(data, w) == IF Len(data) = 0 THEN <<w>> ELSE HeapPush(data, w)

HeapPeek(data) == IF Len(data) = 0 THEN None ELSE Some(data[1])

\* ---------------------------------------------------------------- Actor
VARIABLES
    recurring_goals,   \* HashMap<Goal, GoalData>
    preference_list,   \* HashMap<Item, BinaryHeap<GoalWrapper>>
    satisfactions,     \* HashMap<Goal, Vec<Item>>
    goal_hierarchy,    \* HashMap<Goal, usize>
    op,                \* the last call and its arguments
    ret,               \* what the last call returned
    pre,               \* the Actor as the last call found it
    steps              \* number of calls made since construction

vars == <<recurring_goals, preference_list, satisfactions, goal_hierarchy, op, ret, pre, steps>>

Actor(rg, pl, sat, gh) ==
    [recurring_goals |-> rg, preference_list |-> pl, satisfactions |-> sat,
     goal_hierarchy |-> gh]

this == Actor(recurring_goals, preference_list, satisfactions, goal_hierarchy)

\* The loop body of add_goal for items[k..]: entry(item).or_insert(new).append(one)
\* AddToQueues that queues the entry once per item, however often the item is listed.
RECURSIVE AddToQueuesOnce(_, _, _, _)
AddToQueuesOnce(pl, items, k, w) ==
    IF k > Len(items) THEN pl
    ELSE LET item == items[k]
             old == IF item \in DOMAIN pl THEN pl[item] ELSE <<>>
         IN IF \E j \in 1..(k - 1) : items[j] = item
            THEN AddToQueuesOnce(pl, items, k + 1, w)
            ELSE AddToQueuesOnce(MapInsert(pl, item, HeapAppendOne(old, w)), items, k + 1, w)

RECURSIVE AddToQueues(_, _, _, _)
AddToQueues(pl, items, k, w) ==
    IF k > Len(items) THEN pl
    ELSE LET item == items[k]
             old == IF item \in DOMAIN pl THEN pl[item] ELSE <<>>
         IN AddToQueues(MapInsert(pl, item, HeapAppendOne(old, w)), items, k + 1, w)

\* add_goal that records the rank before it clones the hierarchy for the comparator.
add_goal_rank_first(self, goal, location) ==
    LET actual_goal == get_goal(goal)
        gh == MapInsert(self.goal_hierarchy, actual_goal, location)
        pl == IF actual_goal \in DOMAIN self.satisfactions
              THEN AddToQueues(self.preference_list, self.satisfactions[actual_goal], 1,
                               GoalWrapper(gh, goal))
              ELSE self.preference_list
        rg == IF is_recurring(goal)
              THEN MapInsert(self.recurring_goals, actual_goal, goal)
              ELSE self.recurring_goals
    IN Actor(rg, pl, self.satisfactions, gh)

\* add_goal that keeps its books only for a goal that has a registered item.
add_goal_registered_only(self, goal, location) ==
    LET actual_goal == get_goal(goal)
        gh == self.goal_hierarchy
        listed == actual_goal \in DOMAIN self.satisfactions
        pl == IF listed
              THEN AddToQueues(self.preference_list, self.satisfactions[actual_goal], 1,
                               GoalWrapper(gh, goal))
              ELSE self.preference_list
        rg == IF listed /\ is_recurring(goal)
              THEN MapInsert(self.recurring_goals, actual_goal, goal)
              ELSE self.recurring_goals
    IN Actor(rg, pl, self.satisfactions,
             IF listed THEN MapInsert(gh, actual_goal, location) ELSE gh)

add_goal(self, goal, location) ==
    LET actual_goal == get_goal(goal)
        pl == IF actual_goal \in DOMAIN self.satisfactions
              THEN AddToQueues(self.preference_list, self.satisfactions[actual_goal], 1,
                               GoalWrapper(self.goal_hierarchy, goal))
              ELSE self.preference_list
        rg == IF is_recurring(goal)
              THEN MapInsert(self.recurring_goals, actual_goal, goal)
              ELSE self.recurring_goals
    IN Actor(rg, pl, self.satisfactions, MapInsert(self.goal_hierarchy, actual_goal, location))

\* Rebuild with its test inverted: keeps the entries of the goal, drops the others.
RECURSIVE RebuildInverted(_, _, _, _, _)
RebuildInverted(new, data, k, actual_goal, gh) ==
    IF k > Len(data) THEN new
    ELSE RebuildInverted(IF get_goal(data[k].goal) = actual_goal
                         THEN HeapPush(new, GoalWrapper(gh, data[k].goal))
                         ELSE new,
                         data, k + 1, actual_goal, gh)

\* The inner loop of remove_goal: a new heap of the entries data[k..] whose goal
\* differs, each re-wrapped with a clone of the current goal_hierarchy.
RECURSIVE Rebuild(_, _, _, _, _)
Rebuild(new, data, k, actual_goal, gh) ==
    IF k > Len(data) THEN new
    ELSE Rebuild(IF get_goal(data[k].goal) # actual_goal
                 THEN HeapPush(new, GoalWrapper(gh, data[k].goal))
                 ELSE new,
                 data, k + 1, actual_goal, gh)

\* RemoveFromQueues that stops after the first registered item.
RemoveFromFirstQueue(pl, items, k, actual_goal, gh) ==
    IF Len(items) = 0 \/ items[1] \notin DOMAIN pl THEN pl
    ELSE [pl EXCEPT ![items[1]] = Rebuild(<<>>, pl[items[1]], 1, actual_goal, gh)]

\* The outer loop of remove_goal for items[k..]
RECURSIVE RemoveFromQueues(_, _, _, _, _)
RemoveFromQueues(pl, items, k, actual_goal, gh) ==
    IF k > Len(items) THEN pl
    ELSE LET item == items[k] IN
         RemoveFromQueues(
            IF item \in DOMAIN pl
            THEN [pl EXCEPT ![item] = Rebuild(<<>>, pl[item], 1, actual_goal, gh)]
            ELSE pl,
            items, k + 1, actual_goal, gh)

\* remove_goal that forgets the goal only when it has a registered item.
remove_goal_registered_only(self, actual_goal) ==
    IF actual_goal \in DOMAIN self.satisfactions
    THEN Actor(MapRemove(self.recurring_goals, actual_goal),
               RemoveFromQueues(self.preference_list, self.satisfactions[actual_goal], 1,
                                actual_goal, self.goal_hierarchy),
               self.satisfactions,
               MapRemove(self.goal_hierarchy, actual_goal))
    ELSE self

\* remove_goal that also forgets which items are registered for the goal.
remove_goal_forgets(self, actual_goal) ==
    LET pl == IF actual_goal \in DOMAIN self.satisfactions
              THEN RemoveFromQueues(self.preference_list, self.satisfactions[actual_goal], 1,
                                    actual_goal, self.goal_hierarchy)
              ELSE self.preference_list
    IN Actor(MapRemove(self.recurring_goals, actual_goal), pl,
             MapRemove(self.satisfactions, actual_goal),
             MapRemove(self.goal_hierarchy, actual_goal))

remove_goal(self, actual_goal) ==
    LET pl == IF actual_goal \in DOMAIN self.satisfactions
              THEN RemoveFromQueues(self.preference_list, self.satisfactions[actual_goal], 1,
                                    actual_goal, self.goal_hierarchy)
              ELSE self.preference_list
    IN Actor(MapRemove(self.recurring_goals, actual_goal), pl, self.satisfactions,
             MapRemove(self.goal_hierarchy, actual_goal))

\* use_item that purges the satisfied goal from the used item's queue only.
use_item_local(self, item) ==
    IF item \in DOMAIN self.preference_list /\ Len(self.preference_list[item]) > 0
    THEN LET highest_valued_goal == self.preference_list[item][1].goal
             goal == get_goal(highest_valued_goal)
         IN IF highest_valued_goal.units + 1 >= highest_valued_goal.units_required
            THEN <<Actor(MapRemove(self.recurring_goals, goal),
                         [self.preference_list EXCEPT
                            ![item] = Rebuild(<<>>, @, 1, goal, self.goal_hierarchy)],
                         self.satisfactions,
                         MapRemove(self.goal_hierarchy, goal)),
                   Some(highest_valued_goal)>>
            ELSE <<self, None>>
    ELSE <<self, None>>

\* use_item that creates the queue of an item it does not know.
use_item_or_insert(self, item) ==
    IF item \in DOMAIN self.preference_list /\ Len(self.preference_list[item]) > 0
    THEN LET highest_valued_goal == self.preference_list[item][1].goal IN
         IF highest_valued_goal.units + 1 >= highest_valued_goal.units_required
         THEN <<remove_goal(self, get_goal(highest_valued_goal)), Some(highest_valued_goal)>>
         ELSE <<self, None>>
    ELSE <<[self EXCEPT !.preference_list = MapInsert(@, item, <<>>)], None>>

\* use_item that writes the incremented units back to the queued record.
use_item_persist(self, item) ==
    IF item \in DOMAIN self.preference_list /\ Len(self.preference_list[item]) > 0
    THEN LET highest_valued_goal == self.preference_list[item][1].goal IN
         IF highest_valued_goal.units + 1 >= highest_valued_goal.units_required
         THEN <<remove_goal(self, get_goal(highest_valued_goal)), Some(highest_valued_goal)>>
         ELSE <<[self EXCEPT !.preference_list[item][1].goal.units = @ + 1], None>>
    ELSE <<self, None>>

\* use_item: the pair <<actor after the call, returned Option<GoalData>>>
\* use_item that returns the satisfied record with the incremented units.
use_item_incremented(self, item) ==
    IF item \in DOMAIN self.preference_list
    THEN LET peek == HeapPeek(self.preference_list[item]) IN
         IF peek # None
         THEN LET highest_valued_goal == peek[1].goal
                  units == highest_valued_goal.units + 1
              IN IF units >= highest_valued_goal.units_required
                 THEN <<remove_goal(self, get_goal(highest_valued_goal)),
                        Some([highest_valued_goal EXCEPT !.units = units])>>
                 ELSE <<self, None>>
         ELSE <<self, None>>
    ELSE <<self, None>>

use_item(self, item) ==
    IF item \in DOMAIN self.preference_list
    THEN LET peek == HeapPeek(self.preference_list[item]) IN
         IF peek # None
         THEN LET highest_valued_goal == peek[1].goal
                  units == highest_valued_goal.units + 1
              IN IF units >= highest_valued_goal.units_required
                 THEN <<remove_goal(self, get_goal(highest_valued_goal)),
                        Some(highest_valued_goal)>>
                 ELSE <<self, None>>
         ELSE <<self, None>>
    ELSE <<self, None>>

\* add_satisfaction_entry that also queues a cached recurring record for the item.
add_satisfaction_entry_queues(self, goal, item) ==
    LET list == IF goal \in DOMAIN self.satisfactions
                THEN self.satisfactions[goal]
                ELSE <<item>>
        pl == IF goal \in DOMAIN self.recurring_goals
              THEN AddToQueues(self.preference_list, <<item>>, 1,
                               GoalWrapper(self.goal_hierarchy, self.recurring_goals[goal]))
              ELSE self.preference_list
    IN Actor(self.recurring_goals, pl,
             MapInsert(self.satisfactions, goal, Append(list, item)),
             self.goal_hierarchy)

add_satisfaction_entry(self, goal, item) ==
    LET list == IF goal \in DOMAIN self.satisfactions
                THEN self.satisfactions[goal]
                ELSE <<item>>
    IN Actor(self.recurring_goals, self.preference_list,
             MapInsert(self.satisfactions, goal, Append(list, item)),
             self.goal_hierarchy)

get_best_goal(self, item) ==
    IF item \in DOMAIN self.preference_list
    THEN LET peek == HeapPeek(self.preference_list[item]) IN
         IF peek # None THEN Some(get_goal(peek[1].goal)) ELSE None
    ELSE None

\* compare_item_values that compares the best goals' current ranks.
compare_item_values_by_rank(self, a, b) ==
    LET a_g == get_best_goal(self, a)
        b_g == get_best_goal(self, b)
    IN IF a_g # None /\ b_g # None
       THEN Some(IF a_g[1] \in DOMAIN self.goal_hierarchy /\ b_g[1] \in DOMAIN self.goal_hierarchy
                 THEN IntCmp(self.goal_hierarchy[a_g[1]], self.goal_hierarchy[b_g[1]])
                 ELSE Equal)
       ELSE None

compare_item_values(self, a, b) ==
    LET a_g == get_best_goal(self, a)
        b_g == get_best_goal(self, b)
    IN IF a_g # None /\ b_g # None
       THEN Some(IntCmp(GoalOrd(a_g[1]), GoalOrd(b_g[1])))
       ELSE None

\* Collect that appends the item list of a later pair for a goal already seen.
RECURSIVE CollectAppend(_, _, _)
CollectAppend(m, pairs, k) ==
    IF k > Len(pairs) THEN m
    ELSE CollectAppend(
            MapInsert(m, pairs[k][1],
                      (IF pairs[k][1] \in DOMAIN m THEN m[pairs[k][1]] ELSE <<>>)
                      \o pairs[k][2]),
            pairs, k + 1)

\* satisfactions.into_iter().collect(): each pair is inserted, a later key replaces
RECURSIVE Collect(_, _, _)
Collect(m, pairs, k) ==
    IF k > Len(pairs) THEN m
    ELSE Collect(MapInsert(m, pairs[k][1], pairs[k][2]), pairs, k + 1)

\* for (i, goal) in hierarchy.into_iter().enumerate() { this.add_goal(goal, i) }
RECURSIVE AddAll(_, _, _)
AddAll(self, hierarchy, k) ==
    IF k > Len(hierarchy) THEN self
    ELSE AddAll(add_goal(self, hierarchy[k], k - 1), hierarchy, k + 1)

\* The struct literal new starts from.
new_literal(sats) == Actor(EmptyMap, EmptyMap, Collect(EmptyMap, sats, 1), EmptyMap)

new(hierarchy, sats) == AddAll(new_literal(sats), hierarchy, 1)

\* ---------------------------------------------------------------- inputs
SeqsUpTo(S, n) == UNION {[1..k -> S] : k \in 0..n}

\* The item lists of the constructor's pairs: no item twice, "x" first.
ItemLists ==
    {l \in SeqsUpTo(Items, Cardinality(Items)) :
        /\ Len(l) > 0
        /\ l[1] = "x"
        /\ \A i, j \in 1..Len(l) : i # j => l[i] # l[j]}

\* The constructor's pairs, listed by goal (collect() does not depend on the order
\* of pairs with different goals); pairs of one goal come in either order.
SatisfactionArgs ==
    {s \in SeqsUpTo(Goals \X ItemLists, MaxPairs) :
        \A i, j \in 1..Len(s) : i < j => GoalOrd(s[i][1]) <= GoalOrd(s[j][1])}
\* The constructor's hierarchy: fresh records (units = 0) of different goals.  The
\* code treats goals as opaque tokens, so the lists are taken up to renaming of
\* the goals: the k-th record is for the k-th goal.
HierarchyArgs ==
    {h \in SeqsUpTo({gd \in GoalDatas : gd.units = 0}, MaxHier) :
        \A i \in 1..Len(h) : GoalOrd(get_goal(h[i])) = i - 1}

\* ---------------------------------------------------------------- actions
Install(a) ==
    /\ pre' = this
    /\ recurring_goals' = a.recurring_goals
    /\ preference_list' = a.preference_list
    /\ satisfactions' = a.satisfactions
    /\ goal_hierarchy' = a.goal_hierarchy

Init ==
    \E h \in HierarchyArgs, s \in SatisfactionArgs :
        LET a == new(h, s) IN
        /\ recurring_goals = a.recurring_goals
        /\ preference_list = a.preference_list
        /\ satisfactions = a.satisfactions
        /\ goal_hierarchy = a.goal_hierarchy
        /\ op = [name |-> "new", hierarchy |-> h, satisfactions |-> s]
        /\ ret = None
        /\ pre = new_literal(s)
        /\ steps = 0

\* The record of the top entry of item's queue, if any.
TopRecord(self, item) ==
    IF item \in DOMAIN self.preference_list /\ Len(self.preference_list[item]) > 0
    THEN Some(self.preference_list[item][1].goal)
    ELSE None

Repeats(item) == op.name = "use_item" /\ op.item = item

AddGoalCall(goal, location) ==
    /\ Install(add_goal(this, goal, location))
    /\ op' = [name |-> "add_goal", goal |-> goal, location |-> location]
    /\ ret' = None
    /\ steps' = steps + 1

AddGoal ==
    \E goal \in GoalDatas, location \in 0..MaxRank :
        /\ steps < MaxSteps
        /\ AddGoalCall(goal, location)

RemoveGoal ==
    \E actual_goal \in Goals :
        /\ steps < MaxSteps
        /\ Install(remove_goal(this, actual_goal))
        /\ op' = [name |-> "remove_goal", actual_goal |-> actual_goal]
        /\ ret' = None
        /\ steps' = steps + 1

UseItem ==
    \E item \in Items :
        /\ steps < MaxSteps
        /\ Install(use_item(this, item)[1])
        /\ op' = [name |-> "use_item", item |-> item,
                  \* the run of successive use_item(item) calls this call is in:
                  \* its length so far and the top record its first call found
                  nth |-> IF Repeats(item) THEN op.nth + 1 ELSE 1,
                  top |-> IF Repeats(item) THEN op.top ELSE TopRecord(this, item)]
        /\ ret' = use_item(this, item)[2]
        /\ steps' = steps + 1

AddSatisfactionEntry ==
    \E goal \in Goals, item \in Items :
        /\ steps < MaxSteps
        /\ Install(add_satisfaction_entry(this, goal, item))
        /\ op' = [name |-> "add_satisfaction_entry", goal |-> goal, item |-> item]
        /\ ret' = None
        /\ steps' = steps + 1

CompareItemValues ==
    \E a \in Items, b \in Items :
        /\ steps < MaxSteps
        /\ Install(this)
        /\ op' = [name |-> "compare_item_values", a |-> a, b |-> b]
        /\ ret' = compare_item_values(this, a, b)
        /\ steps' = steps + 1

Next == AddGoal \/ RemoveGoal \/ UseItem \/ AddSatisfactionEntry \/ CompareItemValues

Spec == Init /\ [][Next]_vars

\* ---------------------------------------------------------------- adds only
\* A fresh actor that is only ever given new goals at new ranks: every goal is
\* registered before the first add, and each add names a goal and a rank the
\* hierarchy does not hold yet.
Ranks == {goal_hierarchy[g] : g \in DOMAIN goal_hierarchy}

SatisfactionMaps ==
    {s \in [1..Cardinality(Goals) -> Goals \X ItemLists] :
        \A k \in 1..Len(s) : GoalOrd(s[k][1]) = k - 1}

InitAdds ==
    \E s \in SatisfactionMaps :
        LET a == new(<<>>, s) IN
        /\ recurring_goals = a.recurring_goals
        /\ preference_list = a.preference_list
        /\ satisfactions = a.satisfactions
        /\ goal_hierarchy = a.goal_hierarchy
        /\ op = [name |-> "new", hierarchy |-> <<>>, satisfactions |-> s]
        /\ ret = None
        /\ pre = new_literal(s)
        /\ steps = 0

AddFreshGoal ==
    \E goal \in GoalDatas, location \in 0..(Cardinality(Goals) - 1) :
        /\ get_goal(goal) \notin DOMAIN goal_hierarchy
        /\ location \notin Ranks
        /\ AddGoalCall(goal, location)

NextAdds == AddFreshGoal

SpecAdds == InitAdds /\ [][NextAdds]_vars

\* ---------------------------------------------------------------- observations
Queue(self, i) ==
    IF i \in DOMAIN self.preference_list THEN self.preference_list[i] ELSE <<>>

\* How many entries of a queue are for goal g / carry record r
CountGoal(data, g) == Cardinality({k \in 1..Len(data) : get_goal(data[k].goal) = g})
CountRecord(data, r) == Cardinality({k \in 1..Len(data) : data[k].goal = r})
RecordsOf(data) == {data[k].goal : k \in 1..Len(data)}
GoalsOf(data) == {get_goal(data[k].goal) : k \in 1..Len(data)}

Holds(self, i, g) == CountGoal(Queue(self, i), g) > 0

\* How often item i occurs in the list registered for goal g
Occurrences(self, g, i) ==
    IF g \in DOMAIN self.satisfactions
    THEN Cardinality({k \in 1..Len(self.satisfactions[g]) : self.satisfactions[g][k] = i})
    ELSE 0

Registered(self, g, i) == Occurrences(self, g, i) > 0

\* The last call was use_item and found a top record that one more unit satisfies
SatisfyingConsume ==
    /\ op.name = "use_item"
    /\ TopRecord(pre, op.item) # None
    /\ TopRecord(pre, op.item)[1].units + 1 >= TopRecord(pre, op.item)[1].units_required

\* The last call was use_item and found a top record that one more unit does not satisfy
PartialConsume ==
    /\ op.name = "use_item"
    /\ TopRecord(pre, op.item) # None
    /\ TopRecord(pre, op.item)[1].units + 1 < TopRecord(pre, op.item)[1].units_required

\* ---------------------------------------------------------------- claims

\* C1: a record with units = 0 and units_required = n at the top of item i's queue
\* is satisfied by exactly n successive use_item(i) calls: each of the first n-1
\* returns None and leaves the record on top, the n-th returns the record and
\* purges its goal from every queue.
C1_ConsumeProgress ==
    (/\ op.name = "use_item"
     /\ op.top # None
     /\ op.top[1].units = 0
     /\ op.nth <= op.top[1].units_required)
    => LET r == op.top[1] IN
       IF op.nth < r.units_required
       THEN ret = None /\ TopRecord(this, op.item) = Some(r)
       ELSE ret = Some(r) /\ \A i \in Items : ~Holds(this, i, get_goal(r))

\* C2: one fixed rank direction decides the top of every queue: after adds of
\* pairwise different goals at pairwise different ranks, either every queue has
\* its lowest-ranked goal on top, or every queue has its highest-ranked goal on top.
LowestRankOnTop(i) ==
    \A g \in GoalsOf(Queue(this, i)) :
        goal_hierarchy[get_best_goal(this, i)[1]] <= goal_hierarchy[g]
HighestRankOnTop(i) ==
    \A g \in GoalsOf(Queue(this, i)) :
        goal_hierarchy[get_best_goal(this, i)[1]] >= goal_hierarchy[g]
C2_RankDirection ==
    \/ \A i \in Items : LowestRankOnTop(i)
    \/ \A i \in Items : HighestRankOnTop(i)

C4_RemovePurgesQueues ==
    /\ op.name = "remove_goal" =>
        \A i \in Items :
            /\ ~Holds(this, i, op.actual_goal)
            /\ Len(Queue(this, i)) =
                   Len(Queue(pre, i)) - CountGoal(Queue(pre, i), op.actual_goal)
            /\ get_best_goal(this, i) # Some(op.actual_goal)
    /\ \A g \in Goals :
        (/\ \A i \in Items : ~Holds(pre, i, g)
         /\ op.name # "new"
         /\ ~(op.name = "add_goal" /\ get_goal(op.goal) = g))
        => \A i \in Items : ~Holds(this, i, g) /\ get_best_goal(this, i) # Some(g)

\* C4 witness: remove_goal(g) where g was the best goal of a queue that keeps
\* other entries.
C4_Witness ==
    /\ op.name = "remove_goal"
    /\ \E i \in Items :
        /\ get_best_goal(pre, i) = Some(op.actual_goal)
        /\ Len(Queue(this, i)) > 0

\* C5: remove_goal(g) keeps, in every queue, each record of another goal as often
\* as before; leaves the queue of every item not registered for g as it was;
\* leaves satisfactions as it was; and leaves the recurring_goals and
\* goal_hierarchy entries of every other goal as they were.
C5_RemoveFrame ==
    op.name = "remove_goal" =>
        LET g == op.actual_goal IN
        /\ \A i \in Items :
            \A r \in RecordsOf(Queue(pre, i)) \cup RecordsOf(Queue(this, i)) :
                get_goal(r) # g =>
                    CountRecord(Queue(this, i), r) = CountRecord(Queue(pre, i), r)
        /\ \A i \in Items :
            ~Registered(pre, g, i) =>
                MapGet(preference_list, i) = MapGet(pre.preference_list, i)
        /\ satisfactions = pre.satisfactions
        /\ \A h \in Goals \ {g} :
            /\ MapGet(recurring_goals, h) = MapGet(pre.recurring_goals, h)
            /\ MapGet(goal_hierarchy, h) = MapGet(pre.goal_hierarchy, h)

\* C5 witness: remove_goal(g) with g queued for both items, one of which keeps
\* an entry of another goal.
C5_Witness ==
    /\ op.name = "remove_goal"
    /\ \A i \in Items : Holds(pre, i, op.actual_goal)
    /\ \E i \in Items : Len(Queue(this, i)) > 0

\* C6: use_item on an item with no queue or an empty queue returns None and
\* leaves the actor as it was; get_best_goal on such an item is None.
C6_ConsumeNothing ==
    /\ (op.name = "use_item" /\ Len(Queue(pre, op.item)) = 0)
        => ret = None /\ this = pre
    /\ \A i \in Items : Len(Queue(this, i)) = 0 => get_best_goal(this, i) = None

\* C6 witness: use_item on an item whose queue exists and is empty.
C6_Witness ==
    /\ op.name = "use_item"
    /\ op.item \in DOMAIN pre.preference_list
    /\ Len(pre.preference_list[op.item]) = 0
    /\ get_best_goal(this, op.item) = None

\* C7: a use_item call whose top record is not yet satisfied returns None and
\* leaves the whole actor, the queued record's units included, as it was.
C7_PartialConsumeChangesNothing ==
    PartialConsume => ret = None /\ this = pre

\* C7 witness: the second of two successive partial use_item calls on one item.
C7_Witness == PartialConsume /\ op.nth = 2

\* C8: add_satisfaction_entry(g, i) makes i occur once more in the list of g.
C8_RegisterAppendsOnce ==
    op.name = "add_satisfaction_entry" =>
        Occurrences(this, op.goal, op.item) = Occurrences(pre, op.goal, op.item) + 1

\* C9: add_satisfaction_entry changes satisfactions only: every queue,
\* recurring_goals and goal_hierarchy are as before, so the goal is not queued
\* for the item by the call.
C9_RegisterFrame ==
    op.name = "add_satisfaction_entry" =>
        /\ preference_list = pre.preference_list
        /\ recurring_goals = pre.recurring_goals
        /\ goal_hierarchy = pre.goal_hierarchy
        /\ Holds(this, op.item, op.goal) = Holds(pre, op.item, op.goal)

\* C9 witness: an item is registered for a goal that is ranked and already queued
\* for the other item, and is not queued for it.
C9_Witness ==
    /\ op.name = "add_satisfaction_entry"
    /\ op.goal \in DOMAIN goal_hierarchy
    /\ \E j \in Items \ {op.item} : Holds(this, j, op.goal)
    /\ ~Holds(this, op.item, op.goal)

\* The item lists of the pairs for goal g, concatenated in list order
RECURSIVE ConcatFor(_, _, _)
ConcatFor(pairs, k, g) ==
    IF k > Len(pairs) THEN <<>>
    ELSE (IF pairs[k][1] = g THEN pairs[k][2] ELSE <<>>) \o ConcatFor(pairs, k + 1, g)

PairsFor(pairs, g) == {k \in 1..Len(pairs) : pairs[k][1] = g}

\* C10: new builds satisfactions by appending: the list of g is the concatenation
\* of the item lists of all pairs for g.
C10_ConstructAppends ==
    op.name = "new" =>
        \A g \in Goals :
            PairsFor(op.satisfactions, g) # {} =>
                MapGet(satisfactions, g) = Some(ConcatFor(op.satisfactions, 1, g))

\* C10 as amended: the list of g is the item list of the last pair for g, and a
\* goal without a pair has no list.
Max(S) == CHOOSE m \in S : \A n \in S : n <= m
C10_ConstructKeepsLastPair ==
    op.name = "new" =>
        \A g \in Goals :
            IF PairsFor(op.satisfactions, g) = {}
            THEN g \notin DOMAIN satisfactions
            ELSE MapGet(satisfactions, g) =
                    Some(op.satisfactions[Max(PairsFor(op.satisfactions, g))][2])

\* C10 witness: constructed from two pairs for one goal with different item lists,
\* whose record is queued only for the items of the second pair.
C10_Witness ==
    /\ op.name = "new"
    /\ Len(op.satisfactions) = 2
    /\ op.satisfactions[1][1] = op.satisfactions[2][1]
    /\ op.satisfactions[1][2] = <<"x", "y">>
    /\ op.satisfactions[2][2] = <<"x">>
    /\ Holds(this, "x", op.satisfactions[1][1])
    /\ ~Holds(this, "y", op.satisfactions[1][1])

\* The positions of the hierarchy records whose goal is registered for item i
PositionsFor(hierarchy, i) ==
    {k \in 1..Len(hierarchy) : Registered(this, get_goal(hierarchy[k]), i)}

Min(S) == CHOOSE m \in S : \A n \in S : m <= n

C12_AddBookkeeping ==
    op.name = "add_goal" =>
        LET g == get_goal(op.goal) IN
        /\ goal_hierarchy = MapInsert(pre.goal_hierarchy, g, op.location)
        /\ recurring_goals = IF is_recurring(op.goal)
                             THEN MapInsert(pre.recurring_goals, g, op.goal)
                             ELSE pre.recurring_goals
        /\ (\A i \in Items : ~Registered(pre, g, i)) =>
               preference_list = pre.preference_list

\* C12 witness: a periodic record was added for a goal with no registered item,
\* its rank replacing a different rank the goal had before.
C12_Witness ==
    /\ op.name = "add_goal"
    /\ is_recurring(op.goal)
    /\ \A i \in Items : ~Registered(pre, get_goal(op.goal), i)
    /\ get_goal(op.goal) \in DOMAIN pre.goal_hierarchy
    /\ pre.goal_hierarchy[get_goal(op.goal)] # op.location
    /\ get_goal(op.goal) \notin DOMAIN pre.recurring_goals
    /\ goal_hierarchy[get_goal(op.goal)] = op.location
    /\ recurring_goals[get_goal(op.goal)] = op.goal
    /\ preference_list = pre.preference_list

\* C13: remove_goal always leaves the goal absent from recurring_goals and from
\* goal_hierarchy, whether or not any item is registered for it; with no registered
\* item no queue changes; and an add_goal for a goal that has no rank (as after its
\* removal) installs exactly the rank passed.
C13_RemoveBookkeeping ==
    /\ op.name = "remove_goal" =>
           /\ op.actual_goal \notin DOMAIN recurring_goals
           /\ op.actual_goal \notin DOMAIN goal_hierarchy
           /\ \A g \in Goals \ {op.actual_goal} :
                  /\ MapGet(goal_hierarchy, g) = MapGet(pre.goal_hierarchy, g)
                  /\ MapGet(recurring_goals, g) = MapGet(pre.recurring_goals, g)
           /\ (\A i \in Items : ~Registered(pre, op.actual_goal, i)) =>
                  preference_list = pre.preference_list
    /\ (op.name = "add_goal" /\ get_goal(op.goal) \notin DOMAIN pre.goal_hierarchy) =>
           goal_hierarchy[get_goal(op.goal)] = op.location

\* C13 witness: a goal with a rank, a cached periodic record and no registered item
\* was removed.
C13_Witness ==
    /\ op.name = "remove_goal"
    /\ \A i \in Items : ~Registered(pre, op.actual_goal, i)
    /\ op.actual_goal \in DOMAIN pre.goal_hierarchy
    /\ op.actual_goal \in DOMAIN pre.recurring_goals
    /\ op.actual_goal \notin DOMAIN goal_hierarchy
    /\ op.actual_goal \notin DOMAIN recurring_goals
    /\ preference_list = pre.preference_list
    /\ preference_list # EmptyMap

\* A record that its units already satisfy
Satisfied(r) == r.units >= r.units_required

\* C14: in every reachable state, whatever records were passed to new and add_goal,
\* no record with units >= units_required is held in any item's queue or in
\* recurring_goals.
C14_NoSatisfiedRecordHeld ==
    /\ \A i \in Items : \A r \in RecordsOf(Queue(this, i)) : ~Satisfied(r)
    /\ \A g \in DOMAIN recurring_goals : ~Satisfied(recurring_goals[g])

Removed ==
    IF op.name = "remove_goal" THEN Some(op.actual_goal)
    ELSE IF SatisfyingConsume THEN Some(get_goal(TopRecord(pre, op.item)[1]))
    ELSE None

\* C16: removal does not re-rank the remaining entries: if before the removal of g
\* (by remove_goal or by a satisfying use_item) the top entry of an item's queue was
\* for a goal h other than g, then h is the item's best goal after the call.
C16_RemovalKeepsTop ==
    Removed # None =>
        \A i \in Items :
            (get_best_goal(pre, i) # None /\ get_best_goal(pre, i) # Removed) =>
                get_best_goal(this, i) = get_best_goal(pre, i)

\* C17: add_goal grows the queue of every item by exactly the number of times the
\* item occurs in the list registered for the record's goal, creating the queue when
\* the item had none; the new entries carry the record as passed; no entry is
\* removed; the queues of items not registered for the goal and the satisfactions
\* map are unchanged.
C17_AddGrowsQueues ==
    op.name = "add_goal" =>
        /\ satisfactions = pre.satisfactions
        /\ \A i \in Items :
            LET n == Occurrences(pre, get_goal(op.goal), i) IN
            /\ Len(Queue(this, i)) = Len(Queue(pre, i)) + n
            /\ CountRecord(Queue(this, i), op.goal) = CountRecord(Queue(pre, i), op.goal) + n
            /\ \A r \in RecordsOf(Queue(pre, i)) \ {op.goal} :
                   CountRecord(Queue(this, i), r) = CountRecord(Queue(pre, i), r)
            /\ n > 0 => i \in DOMAIN preference_list
            /\ n = 0 => MapGet(preference_list, i) = MapGet(pre.preference_list, i)

\* C17 witness: a record was added for a goal whose list names one item twice and
\* that item had no queue; the item's new queue holds the record twice.
C17_Witness ==
    /\ op.name = "add_goal"
    /\ \E i \in Items :
           /\ Occurrences(pre, get_goal(op.goal), i) = 2
           /\ i \notin DOMAIN pre.preference_list
           /\ Len(Queue(this, i)) = 2
           /\ CountRecord(Queue(this, i), op.goal) = 2

\* C18: a satisfying use_item returns exactly the record the top entry of the item's
\* queue held before the call, with units as stored and not incremented, for one-off
\* and periodic records alike.
C18_SatisfyingConsumeReturnsStored ==
    SatisfyingConsume => ret = TopRecord(pre, op.item)

\* C18 witness: a satisfying use_item found a periodic record with one unit stored
\* and two required on top and returned it with one unit.
C18_Witness ==
    /\ SatisfyingConsume
    /\ is_recurring(TopRecord(pre, op.item)[1])
    /\ TopRecord(pre, op.item)[1].units = 1
    /\ TopRecord(pre, op.item)[1].units_required = 2
    /\ ret # None
    /\ ret[1].units = 1

\* s is an initial part of t
IsPrefix(s, t) == Len(s) <= Len(t) /\ SubSeq(t, 1, Len(s)) = s

\* C19: queue membership implies registration: in every reachable state, if an
\* item's queue holds an entry for goal g then the item occurs in the list
\* registered for g; and the registered lists never shrink, each call leaving every
\* list it found as an initial part of the list afterwards.
C19_QueuedImpliesRegistered ==
    /\ \A i \in Items : \A g \in GoalsOf(Queue(this, i)) : Registered(this, g, i)
    /\ \A g \in DOMAIN pre.satisfactions :
           /\ g \in DOMAIN satisfactions
           /\ IsPrefix(pre.satisfactions[g], satisfactions[g])

\* C19 witness: remove_goal took a goal out of the queue of an item that still holds
\* another goal; the item stays registered for both.
C19_Witness ==
    /\ op.name = "remove_goal"
    /\ \E i \in Items :
           /\ Holds(pre, i, op.actual_goal)
           /\ ~Holds(this, i, op.actual_goal)
           /\ Registered(this, op.actual_goal, i)
           /\ \E g \in Goals \ {op.actual_goal} : Holds(this, i, g) /\ Registered(this, g, i)

====
